---- MODULE Spec2Model ----
(***************************************************************************)
(* Deep Survival Machines (package dsm): the loss and inference functions  *)
(* of dsm/losses.py and the DeepSurvivalMachines wrapper of dsm/dsm_api.py.*)
(*                                                                         *)
(* Numbers.  The code computes in IEEE double precision (torch .double()). *)
(* Here a real v is the integer round(v * Unit): three decimal digits,     *)
(* finite up to MaxFinite, with the three IEEE special values PosInf,      *)
(* NegInf and NaN and their arithmetic (inf - inf = NaN, 0 * inf = NaN,    *)
(* log 0 = -inf, exp(-inf) = 0).  Every torch / numpy call of losses.py is *)
(* an operator below that computes the function to that precision.         *)
(***************************************************************************)
EXTENDS Integers, Sequences, FiniteSets, TLC

\* ------------------------------------------------------------------------
\* Number format
\* ------------------------------------------------------------------------
Unit == 10^3
MaxFinite == 10^8
PosInf == 10^9
NegInf == -(10^9)
NaN == 2 * (10^9)

IsFinite(a) == a > NegInf /\ a < PosInf

Abs(a) == IF a < 0 THEN -a ELSE a

Sign(a) == IF a < 0 THEN -1 ELSE IF a > 0 THEN 1 ELSE 0

\* a finite result out of range overflows to an infinity
Saturate(v) ==
  IF v > MaxFinite THEN PosInf ELSE IF v < -MaxFinite THEN NegInf ELSE v

\* unary minus
FNeg(a) == IF a = NaN THEN NaN ELSE -a

\* a + b
FAdd(a, b) ==
  IF a = NaN \/ b = NaN THEN NaN
  ELSE IF a = PosInf THEN (IF b = NegInf THEN NaN ELSE PosInf)
  ELSE IF a = NegInf THEN (IF b = PosInf THEN NaN ELSE NegInf)
  ELSE IF b = PosInf \/ b = NegInf THEN b
  ELSE Saturate(a + b)

\* a - b
FSub(a, b) == FAdd(a, FNeg(b))

\* product of two finite magnitudes, rounded to nearest
MulMag(a, b) ==
  LET ah == a \div Unit
      al == a % Unit
      bh == b \div Unit
      bl == b % Unit
  IN IF ah > 0 /\ bh > (MaxFinite \div Unit) \div ah THEN PosInf
     ELSE Saturate(ah * bh * Unit + ah * bl + al * bh
                   + (al * bl + Unit \div 2) \div Unit)

\* a * b
FMul(a, b) ==
  IF a = NaN \/ b = NaN THEN NaN
  ELSE IF ~IsFinite(a) \/ ~IsFinite(b)
       THEN (IF a = 0 \/ b = 0 THEN NaN
             ELSE IF Sign(a) * Sign(b) > 0 THEN PosInf ELSE NegInf)
  ELSE Sign(a) * Sign(b) * MulMag(Abs(a), Abs(b))

\* quotient of two finite magnitudes, b > 0, rounded to nearest
DivMag(a, b) ==
  LET big == b > 2 * (10^6)
      n == IF big THEN a \div Unit ELSE a
      d == IF big THEN b \div Unit ELSE b
      q == n \div d
      r == n % d
  IN IF q > MaxFinite \div Unit THEN PosInf
     ELSE Saturate(q * Unit + (r * Unit + d \div 2) \div d)

\* torch.div(a, b), a / b
torch_div(a, b) ==
  IF a = NaN \/ b = NaN THEN NaN
  ELSE IF ~IsFinite(a) /\ ~IsFinite(b) THEN NaN
  ELSE IF ~IsFinite(b) THEN 0
  ELSE IF b = 0 THEN (IF a = 0 THEN NaN ELSE IF a > 0 THEN PosInf ELSE NegInf)
  ELSE IF ~IsFinite(a) THEN (IF Sign(a) * Sign(b) > 0 THEN PosInf ELSE NegInf)
  ELSE Sign(a) * Sign(b) * DivMag(Abs(a), Abs(b))

\* e^0 .. e^11, times Unit
ExpIntTable ==
  << 1000, 2718, 7389, 20086, 54598, 148413, 403429, 1096633, 2980958,
     8103084, 22026466, 59874142 >>

\* the Taylor series of e^(r/Unit), 0 <= r < Unit, at scale 10^6
RECURSIVE ExpSeries(_, _, _)
ExpSeries(r, term, i) ==
  IF term = 0 THEN 0
  ELSE term + ExpSeries(r, (term * r) \div (Unit * i), i + 1)

\* e^(a/Unit) for a finite a in range, times Unit
ExpCore(a) ==
  LET n == a \div Unit
      frac == ExpSeries(a % Unit, 10^6, 1)
  IN IF n >= 0
     THEN Saturate(MulMag(ExpIntTable[n + 1], (frac + 500) \div 1000))
     ELSE (frac + ExpIntTable[1 - n] \div 2) \div ExpIntTable[1 - n]

\* ExpCore, tabulated
ExpTable == [a \in -8000..11512 |-> ExpCore(a)]

\* torch.exp
torch_exp(a) ==
  IF a = NaN THEN NaN
  ELSE IF a = PosInf THEN PosInf
  ELSE IF a = NegInf THEN 0
  ELSE IF a >= 11513 THEN PosInf
  ELSE IF a < -8000 THEN 0
  ELSE ExpTable[a]

\* how often x is halved to get below 2 * unit
RECURSIVE HalveCount(_, _)
HalveCount(x, unit) ==
  IF x < 2 * unit THEN 0 ELSE 1 + HalveCount(x \div 2, unit)

\* how often x is doubled to reach unit
RECURSIVE DoubleCount(_, _)
DoubleCount(x, unit) ==
  IF x >= unit THEN 0 ELSE 1 + DoubleCount(2 * x, unit)

\* ln(x / unit) for an integer x >= 1 and unit <= 10^4, times 10^5:
\* x / unit = 2^n * m with 1 <= m < 2, ln m = 2 atanh((m-1)/(m+1))
LnFine(x, unit) ==
  LET up == HalveCount(x, unit)
      down == DoubleCount(x, unit)
      m == IF x >= unit THEN x \div (2^up) ELSE x * (2^down)
      y == ((m - unit) * (10^5)) \div (m + unit)
      y2 == (y * y) \div (10^5)
      t3 == (y * y2) \div (10^5)
      t5 == (t3 * y2) \div (10^5)
      t7 == (t5 * y2) \div (10^5)
      t9 == (t7 * y2) \div (10^5)
      s == y + t3 \div 3 + t5 \div 5 + t7 \div 7 + t9 \div 9
      v == (up - down) * 69315 + 2 * s
  IN v

\* ln(x / unit), times Unit
LnCore(x, unit) == (LnFine(x, unit) + 50) \div 100

\* LnCore(a, Unit) for the small arguments, tabulated
LnTable == [a \in 1..(16 * Unit) |-> LnCore(a, Unit)]

\* torch.log
torch_log(a) ==
  IF a = NaN \/ a < 0 THEN NaN
  ELSE IF a = 0 THEN NegInf
  ELSE IF a = PosInf THEN PosInf
  ELSE IF a <= 16 * Unit THEN LnTable[a]
  ELSE LnCore(a, Unit)

\* torch.pow(x, y) for a base x >= 0
\* (pow(x, 0) and pow(1, y) are 1 for every x and y, NaN included)
torch_pow(x, y) ==
  IF y = 0 \/ x = Unit THEN Unit
  ELSE IF x = NaN \/ y = NaN THEN NaN
  ELSE IF y = Unit THEN x
  ELSE IF x = 0 THEN (IF y > 0 THEN 0 ELSE PosInf)
  ELSE torch_exp(FMul(y, torch_log(x)))

\* 0.5 * np.log(2 * np.pi)
HalfLog2Pi == 919

\* np.sqrt(2)
Sqrt2 == 1414

\* erfc(w) * exp(w^2) for w >= 0 at scale 10^4: the rational approximation
\* (a1 u + a2 u^2 + a3 u^3 + a4 u^4 + a5 u^5), u = 1 / (1 + 0.3275911 w)
ErfcPoly(w) ==
  LET u == (10^8) \div (10^4 + (3276 * w) \div Unit)
      h4 == -14532 + (10614 * u) \div (10^4)
      h3 == 14214 + (h4 * u) \div (10^4)
      h2 == -2845 + (h3 * u) \div (10^4)
      h1 == 2548 + (h2 * u) \div (10^4)
  IN (h1 * u) \div (10^4)

\* sqrt(pi) / (erfc(w) * exp(w^2)) for w >= 2 at scale 10^4: the continued
\* fraction w + (1/2) / (w + 1 / (w + (3/2) / (w + ...))), from its k-th level
RECURSIVE ErfcFraction(_, _)
ErfcFraction(w, k) ==
  IF k >= 40 THEN 10 * w
  ELSE 10 * w + (k * 5 * (10^7)) \div ErfcFraction(w, k + 1)

\* ln(0.5 erfc(w)) for 2 <= w < 6 at scale 10^5:
\* -ln(2 sqrt(pi)) - ln(fraction) - w^2
LogHalfErfcFine(w) ==
  -126551 - LnFine(ErfcFraction(w, 1), 10^4) - (w * w + 5) \div 10

\* ln(k - 1/2) at scale 10^5
HalfIntegerLog(k) == LnFine((2 * k - 1) * 8192, 8192) - 69315

\* the largest k <= m with ln(k - 1/2) <= l, and 0 if there is none: the
\* integer nearest to exp(l)
RECURSIVE NearestInteger(_, _)
NearestInteger(l, m) ==
  IF m < 1 THEN 0
  ELSE IF HalfIntegerLog(m) <= l THEN m
  ELSE NearestInteger(l, m - 1)

\* torch.log(0.5 - 0.5 * torch.erf(z)).  In double precision erf(z) close
\* to 1 is a multiple of 2^-53, so the difference is m * 2^-54 with m the
\* integer nearest to 0.5 erfc(z) * 2^54, and the log is ln m - 54 ln 2:
\* log(2^-54) = -37.430 where m = 1, and log 0 = -inf where m = 0 (from
\* z = 5.922).  Below z = 5.2 (m in the thousands) the steps are finer than
\* the precision here, and below z = 2 the rational approximation is used.
LogHalfErfc(z) ==
  IF z = NaN THEN NaN
  ELSE IF z >= 6000 THEN NegInf
  ELSE IF z >= 5200
  THEN LET l == LogHalfErfcFine(z) + 3742995
           m0 == (torch_exp((l + 50) \div 100) + 500) \div 1000
           m == NearestInteger(l, m0 + 1)
       IN IF m = 0 THEN NegInf ELSE LnCore(m * 8192, 8192) - 37430
  ELSE IF z >= 2000 THEN (LogHalfErfcFine(z) + 50) \div 100
  ELSE IF z >= 0 THEN FSub(LnCore(ErfcPoly(z) \div 2, 10^4), FMul(z, z))
  ELSE IF z <= -5930 THEN 0
  ELSE torch_log(Unit - (ErfcPoly(-z) * torch_exp(-FMul(z, z)) + 10^4)
                        \div (2 * (10^4)))

\* ------------------------------------------------------------------------
\* Tensors: a vector is a sequence of numbers
\* ------------------------------------------------------------------------
RECURSIVE tensor_sum(_)
\* tensor.sum()
tensor_sum(v) ==
  IF v = << >> THEN 0 ELSE FAdd(Head(v), tensor_sum(Tail(v)))

RECURSIVE tensor_max(_)
\* the largest entry of a non-empty vector (NaN if any entry is)
tensor_max(v) ==
  IF Len(v) = 1 THEN Head(v)
  ELSE LET rest == tensor_max(Tail(v))
       IN IF Head(v) = NaN \/ rest = NaN THEN NaN
          ELSE IF Head(v) > rest THEN Head(v) ELSE rest

\* the indices i of a 0/1 vector e (in order) with e[i] = val: np.where(e == val)[0]
RECURSIVE np_where(_, _, _)
np_where(e, val, i) ==
  IF i > Len(e) THEN << >>
  ELSE IF e[i] = val THEN <<i>> \o np_where(e, val, i + 1)
  ELSE np_where(e, val, i + 1)

\* v[idx] for an index vector idx
Take(v, idx) == [j \in 1..Len(idx) |-> v[idx[j]]]

\* nn.Softmax(dim=1) on one row of logits
Softmax(logits) ==
  LET m == tensor_max(logits)
      ex == [g \in 1..Len(logits) |-> torch_exp(FSub(logits[g], m))]
      total == tensor_sum(ex)
  IN [g \in 1..Len(logits) |-> torch_div(ex[g], total)]

\* nn.LogSoftmax(dim=1) on one row of logits
LogSoftmax(logits) ==
  LET m == tensor_max(logits)
      ex == [g \in 1..Len(logits) |-> torch_exp(FSub(logits[g], m))]
      lse == torch_log(tensor_sum(ex))
  IN [g \in 1..Len(logits) |-> FSub(FSub(logits[g], m), lse)]

\* torch.logsumexp(v, dim=1) on one row: the maximum is subtracted before
\* the exponentials are summed; an infinite maximum is replaced by 0
torch_logsumexp(v) ==
  LET mx == tensor_max(v)
      m == IF IsFinite(mx) THEN mx ELSE 0
      ex == [g \in 1..Len(v) |-> torch_exp(FSub(v[g], m))]
  IN IF mx = NaN THEN NaN ELSE FAdd(m, torch_log(tensor_sum(ex)))

\* ------------------------------------------------------------------------
\* Distribution kernels (the loop bodies of losses.py)
\* ------------------------------------------------------------------------
\* WeibullS without the minus sign
WeibullSPositive(k, b, t) ==
  torch_pow(FMul(torch_exp(b), t), torch_exp(k))

\* Weibull log-survival: s = - (torch.pow(torch.exp(b)*t, torch.exp(k)))
WeibullS(k, b, t) ==
  FNeg(torch_pow(FMul(torch_exp(b), t), torch_exp(k)))

\* Weibull log-density: f = k + b + ((torch.exp(k)-1)*(b+torch.log(t))); f = f + s
WeibullF(k, b, t) ==
  FAdd(FAdd(FAdd(k, b),
            FMul(FSub(torch_exp(k), Unit), FAdd(b, torch_log(t)))),
       WeibullS(k, b, t))

\* LogNormal log-density:
\* f = - sigma - 0.5*np.log(2*np.pi)
\* f = f - torch.div((torch.log(t) - mu)**2, 2.*torch.exp(2*sigma))
LogNormalF(mu, sigma, t) ==
  LET d == FSub(torch_log(t), mu)
  IN FSub(FSub(FNeg(sigma), HalfLog2Pi),
          torch_div(FMul(d, d), FMul(2 * Unit, torch_exp(FMul(2 * Unit, sigma)))))

\* LogNormal log-survival:
\* s = torch.div(torch.log(t) - mu, torch.exp(sigma)*np.sqrt(2))
\* s = 0.5 - 0.5*torch.erf(s); s = torch.log(s)
LogNormalS(mu, sigma, t) ==
  LogHalfErfc(torch_div(FSub(torch_log(t), mu), FMul(torch_exp(sigma), Sqrt2)))

\* ------------------------------------------------------------------------
\* Bounds and input sets
\* ------------------------------------------------------------------------
\* largest batch (number of instances in one call)
MaxBatch == 2

\* largest number K of mixture components
MaxK == 2

\* longest list of horizons
MaxHorizons == 2

\* distribution names: the two supported families and one other name
Dists == {"Weibull", "LogNormal", "Gamma"}

\* discount factors alpha: 0, 0.5, 1
Discounts == {0, Unit \div 2, Unit}

\* feature vectors, by identity
Features == {1, 2}

\* event / censoring times t > 0: 1, 100
Times == {Unit, 100 * Unit}

\* query horizons >= 0: 0, 1, 100
HorizonVals == {0, Unit, 100 * Unit}

\* parameter states of the feature network
Nets == {1, 2}

\* the torch model objects handed to the functions of losses.py
TorchModels ==
  [dist : Dists, k : 1..MaxK, discount : Discounts, net : Nets]

\* ------------------------------------------------------------------------
\* The kernels, tabulated once over the values their arguments take
\* ------------------------------------------------------------------------
\* the values a shape or scale output takes: 0, -1
ParamVals == {0, -Unit}

TimeVals == Times \cup HorizonVals

WeibullSTable == [k \in ParamVals, b \in ParamVals, t \in TimeVals |-> WeibullS(k, b, t)]

WeibullFTable == [k \in ParamVals, b \in ParamVals, t \in TimeVals |-> WeibullF(k, b, t)]

LogNormalFTable == [mu \in ParamVals, sigma \in ParamVals, t \in TimeVals |-> LogNormalF(mu, sigma, t)]

LogNormalSTable == [mu \in ParamVals, sigma \in ParamVals, t \in TimeVals |-> LogNormalS(mu, sigma, t)]

WeibullSAt(k, b, t) == WeibullSTable[k, b, t]

WeibullFAt(k, b, t) == WeibullFTable[k, b, t]

LogNormalFAt(mu, sigma, t) == LogNormalFTable[mu, sigma, t]

LogNormalSAt(mu, sigma, t) == LogNormalSTable[mu, sigma, t]

\* ------------------------------------------------------------------------
\* The feature network (dsm_torch, a collaborator): its outputs are a fixed
\* function of the parameter state, the feature vector and the component
\* ------------------------------------------------------------------------
ShapeOut(net, x, g) == -Unit * ((net + g) % 2)

ScaleOut(net, x, g) == -Unit * ((net + x + g + 1) % 2)

LogitOut(net, x, g) == Unit * (((net + x * g) % 3) - 1)

\* model.forward(x) -> (shape, scale, logits), each [batch, K]
forward(model, x) ==
  [shape |-> [i \in 1..Len(x) |-> [g \in 1..model.k |-> ShapeOut(model.net, x[i], g)]],
   scale |-> [i \in 1..Len(x) |-> [g \in 1..model.k |-> ScaleOut(model.net, x[i], g)]],
   logits |-> [i \in 1..Len(x) |-> [g \in 1..model.k |-> LogitOut(model.net, x[i], g)]]]

\* model.get_shape_scale() -> (shape, scale), each [1, K]
get_shape_scale(model) ==
  [shape |-> [g \in 1..model.k |-> -Unit * ((model.net + g) % 2)],
   scale |-> [g \in 1..model.k |-> -Unit * (g % 2)]]

\* ------------------------------------------------------------------------
\* Outcomes of a call: an exception or a returned value, with the number of
\* calls made to model.forward and model.get_shape_scale
\* ------------------------------------------------------------------------
Raised(exc) ==
  [raised |-> exc, returned |-> FALSE, loss |-> 0, cdfs |-> << >>,
   forward |-> 0, get_shape_scale |-> 0]

ReturnedLoss(v, nforward, ngss) ==
  [raised |-> "", returned |-> TRUE, loss |-> v, cdfs |-> << >>,
   forward |-> nforward, get_shape_scale |-> ngss]

ReturnedCdfs(c, nforward) ==
  [raised |-> "", returned |-> TRUE, loss |-> 0, cdfs |-> c,
   forward |-> nforward, get_shape_scale |-> 0]

\* ------------------------------------------------------------------------
\* losses.py: unconditional losses
\* ------------------------------------------------------------------------
\* one pass of the loop of _lognormal_loss: f[uncens].sum() + s[cens].sum()
LogNormalLossTerm(model, t, e, g) ==
  LET p == get_shape_scale(model)
      mu == p.shape[g]
      sigma == p.scale[g]
      f == [i \in 1..Len(t) |-> LogNormalFAt(mu, sigma, t[i])]
      s == [i \in 1..Len(t) |-> LogNormalSAt(mu, sigma, t[i])]
      uncens == np_where(e, 1, 1)
      cens == np_where(e, 0, 1)
  IN FAdd(tensor_sum(Take(f, uncens)), tensor_sum(Take(s, cens)))

\* ll after the first g passes of the loop of _lognormal_loss
RECURSIVE LogNormalLossLoop(_, _, _, _)
LogNormalLossLoop(model, t, e, g) ==
  IF g = 0 THEN 0
  ELSE FAdd(LogNormalLossLoop(model, t, e, g - 1), LogNormalLossTerm(model, t, e, g))

lognormal_loss(model, t, e) ==
  ReturnedLoss(FNeg(LogNormalLossLoop(model, t, e, model.k)), 0, 1)

\* WeibullLossTerm with the censored sum discounted by model.discount
WeibullLossTermDiscounted(model, t, e, g) ==
  LET p == get_shape_scale(model)
      k == p.shape[g]
      b == p.scale[g]
      s == [i \in 1..Len(t) |-> WeibullSAt(k, b, t[i])]
      f == [i \in 1..Len(t) |-> WeibullFAt(k, b, t[i])]
      uncens == np_where(e, 1, 1)
      cens == np_where(e, 0, 1)
  IN FAdd(tensor_sum(Take(f, uncens)),
          FMul(model.discount, tensor_sum(Take(s, cens))))

\* one pass of the loop of _weibull_loss: f[uncens].sum() + s[cens].sum()
WeibullLossTerm(model, t, e, g) ==
  LET p == get_shape_scale(model)
      k == p.shape[g]
      b == p.scale[g]
      s == [i \in 1..Len(t) |-> WeibullSAt(k, b, t[i])]
      f == [i \in 1..Len(t) |-> WeibullFAt(k, b, t[i])]
      uncens == np_where(e, 1, 1)
      cens == np_where(e, 0, 1)
  IN FAdd(tensor_sum(Take(f, uncens)), tensor_sum(Take(s, cens)))

\* ll after the first g passes of the loop of _weibull_loss
RECURSIVE WeibullLossLoop(_, _, _, _)
WeibullLossLoop(model, t, e, g) ==
  IF g = 0 THEN 0
  ELSE FAdd(WeibullLossLoop(model, t, e, g - 1), WeibullLossTerm(model, t, e, g))

weibull_loss(model, t, e) ==
  ReturnedLoss(FNeg(WeibullLossLoop(model, t, e, model.k)), 0, 1)

unconditional_loss(model, t, e) ==
  IF model.dist = "Weibull" THEN weibull_loss(model, t, e)
  ELSE IF model.dist = "LogNormal" THEN lognormal_loss(model, t, e)
  ELSE Raised("NotImplementedError")

\* ------------------------------------------------------------------------
\* losses.py: conditional losses
\* ------------------------------------------------------------------------
\* elbo branch, one row: lossg = Softmax(logits); (lossg * loss).sum(dim=1)
ElboAggregate(logits, vals) ==
  LET lossg == Softmax(logits)
  IN tensor_sum([g \in 1..Len(vals) |-> FMul(lossg[g], vals[g])])

\* ExactAggregate with the weighted log-values summed, not log-sum-exp'ed
ExactAggregateSummed(logits, vals) ==
  LET lossg == LogSoftmax(logits)
  IN tensor_sum([g \in 1..Len(vals) |-> FAdd(lossg[g], vals[g])])

\* other branch, one row: lossg = LogSoftmax(logits); logsumexp(lossg + loss)
ExactAggregate(logits, vals) ==
  LET lossg == LogSoftmax(logits)
  IN torch_logsumexp([g \in 1..Len(vals) |-> FAdd(lossg[g], vals[g])])

\* the if/else on elbo
Aggregate(elbo, logits, vals) ==
  IF elbo THEN ElboAggregate(logits, vals) ELSE ExactAggregate(logits, vals)

\* CensoredObjective without the discount on the censored sum
CensoredObjectiveNoDiscount(alpha, lossf, losss, e) ==
  LET uncens == np_where(e, 1, 1)
      cens == np_where(e, 0, 1)
      ll == FAdd(tensor_sum(Take(lossf, uncens)), tensor_sum(Take(losss, cens)))
  IN FNeg(ll)

\* CensoredObjective with the censored rows taken by position, not by index
CensoredObjectiveMisaligned(alpha, lossf, losss, e) ==
  LET uncens == np_where(e, 1, 1)
      cens == np_where(e, 0, 1)
      ll == FAdd(tensor_sum(Take(lossf, uncens)),
                 FMul(alpha, tensor_sum(SubSeq(losss, 1, Len(cens)))))
  IN FNeg(ll)

\* the last three statements of both conditional losses:
\* ll = lossf[uncens].sum() + alpha*losss[cens].sum(); return -ll.mean()
CensoredObjective(alpha, lossf, losss, e) ==
  LET uncens == np_where(e, 1, 1)
      cens == np_where(e, 0, 1)
      ll == FAdd(tensor_sum(Take(lossf, uncens)),
                 FMul(alpha, tensor_sum(Take(losss, cens))))
  IN FNeg(ll)

conditional_lognormal_loss(model, x, t, e, elbo) ==
  LET alpha == model.discount
      out == forward(model, x)
      lossf == [i \in 1..Len(t) |->
                 Aggregate(elbo, out.logits[i],
                   [g \in 1..model.k |-> LogNormalFAt(out.shape[i][g], out.scale[i][g], t[i])])]
      losss == [i \in 1..Len(t) |->
                 Aggregate(elbo, out.logits[i],
                   [g \in 1..model.k |-> LogNormalSAt(out.shape[i][g], out.scale[i][g], t[i])])]
  IN ReturnedLoss(CensoredObjective(alpha, lossf, losss, e), 1, 0)

conditional_weibull_loss(model, x, t, e, elbo) ==
  LET alpha == model.discount
      out == forward(model, x)
      lossf == [i \in 1..Len(t) |->
                 Aggregate(elbo, out.logits[i],
                   [g \in 1..model.k |-> WeibullFAt(out.shape[i][g], out.scale[i][g], t[i])])]
      losss == [i \in 1..Len(t) |->
                 Aggregate(elbo, out.logits[i],
                   [g \in 1..model.k |-> WeibullSAt(out.shape[i][g], out.scale[i][g], t[i])])]
  IN ReturnedLoss(CensoredObjective(alpha, lossf, losss, e), 1, 0)

conditional_loss(model, x, t, e, elbo) ==
  IF model.dist = "Weibull" THEN conditional_weibull_loss(model, x, t, e, elbo)
  ELSE IF model.dist = "LogNormal" THEN conditional_lognormal_loss(model, x, t, e, elbo)
  ELSE Raised("NotImplementedError")

\* ------------------------------------------------------------------------
\* losses.py: inference
\* ------------------------------------------------------------------------
\* cdfs[j][i] = logsumexp over g of (s(k[i][g], b[i][g], t_horizon[j]) + logits[i][g])
weibull_cdf(model, x, t_horizon) ==
  LET out == forward(model, x)
      logits == [i \in 1..Len(x) |-> LogSoftmax(out.logits[i])]
  IN ReturnedCdfs(
       [j \in 1..Len(t_horizon) |-> [i \in 1..Len(x) |->
          torch_logsumexp([g \in 1..model.k |->
            FAdd(WeibullSAt(out.shape[i][g], out.scale[i][g], t_horizon[j]),
                 logits[i][g])])]], 1)

lognormal_cdf(model, x, t_horizon) ==
  LET out == forward(model, x)
      logits == [i \in 1..Len(x) |-> LogSoftmax(out.logits[i])]
  IN ReturnedCdfs(
       [j \in 1..Len(t_horizon) |-> [i \in 1..Len(x) |->
          torch_logsumexp([g \in 1..model.k |->
            FAdd(LogNormalSAt(out.shape[i][g], out.scale[i][g], t_horizon[j]),
                 logits[i][g])])]], 1)

\* predict_cdf falling back to LogNormal for every other name
predict_cdf_default(model, x, t_horizon) ==
  IF model.dist = "Weibull" THEN weibull_cdf(model, x, t_horizon)
  ELSE lognormal_cdf(model, x, t_horizon)

predict_cdf(model, x, t_horizon) ==
  IF model.dist = "Weibull" THEN weibull_cdf(model, x, t_horizon)
  ELSE IF model.dist = "LogNormal" THEN lognormal_cdf(model, x, t_horizon)
  ELSE Raised("NotImplementedError")

\* ------------------------------------------------------------------------
\* State
\* ------------------------------------------------------------------------
VARIABLES
  model,          \* the torch model handed to the functions of losses.py
  call,           \* the last call of a function of losses.py: arguments and outcome
  dsm,            \* the DeepSurvivalMachines object (self): its attributes
  fit_call,       \* the last call of fit: its outcome and its split
  fit_succeeded,  \* history: some call of fit has completed without raising
  threads         \* the inference call each caller thread is in, and where

lossVars == << model, call >>

apiVars == << dsm, fit_call, fit_succeeded, threads >>

vars == << model, call, dsm, fit_call, fit_succeeded, threads >>

\* sequences over S of length lo..hi
SeqsOf(S, lo, hi) == UNION {[1..n -> S] : n \in lo..hi}

NoCall ==
  [op |-> "none", x |-> << >>, t |-> << >>, e |-> << >>, elbo |-> FALSE,
   t_horizon |-> << >>, out |-> Raised("")]

\* ------------------------------------------------------------------------
\* dsm_api.py: the DeepSurvivalMachines object and its callers
\* ------------------------------------------------------------------------
\* type(self).__name__: the class and its two unimplemented subclasses
Classes ==
  {"DeepSurvivalMachines", "DeepRecurrentSurvivalMachines",
   "DeepConvolutionalSurvivalMachines"}

\* self.torch_model before fit has assigned it
NoModel == [dist |-> "", k |-> 0, discount |-> 0, net |-> 0]

\* __init__(self, k, layers, distribution, temp, discount): the attributes
\* the other methods read (layers and temp only reach the network)
DeepSurvivalMachines(cls, k, distribution, discount) ==
  [cls |-> cls, k |-> k, dist |-> distribution, discount |-> discount,
   fitted |-> FALSE, torch_model |-> NoModel]

NoSelf == DeepSurvivalMachines("", 0, "", 0)

\* no call of fit is waiting to be looked at
NoFit ==
  [op |-> "none", raised |-> "", fitted_before |-> FALSE,
   n |-> 0, vsize |-> 0, train |-> << >>, val |-> << >>]

\* the caller threads
Threads == {"t1", "t2"}

\* the argument t of predict_survival / predict_risk: a float or a list
FloatT(v) == [list |-> FALSE, items |-> << v >>]

ListT(l) == [list |-> TRUE, items |-> l]

\* outcomes of predict_survival / predict_risk: an exception or an array
\* [batch, horizons], with the number of calls made to predict_cdf
PredictRaised(exc, ncdf) ==
  [raised |-> exc, returned |-> FALSE, probs |-> << >>, predict_cdf |-> ncdf]

PredictReturned(p) ==
  [raised |-> "", returned |-> TRUE, probs |-> p, predict_cdf |-> 1]

NoOutcome == PredictRaised("", 0)

IdleThread ==
  [pc |-> "idle", op |-> "", x |-> << >>, t |-> ListT(<< >>),
   self0 |-> NoSelf, out |-> NoOutcome]

\* ------------------------------------------------------------------------
\* Calls of the functions of losses.py on one model
\* ------------------------------------------------------------------------
\* the models the calls are made on: every family, K and discount, on the
\* first parameter state of the network
LossModels == {m \in TorchModels : m.net = 1}

LossInit ==
  /\ model \in LossModels
  /\ call = NoCall
  /\ dsm = DeepSurvivalMachines("DeepSurvivalMachines", model.k, model.dist,
                                model.discount)
  /\ fit_call = NoFit
  /\ fit_succeeded = FALSE
  /\ threads = [th \in Threads |-> IdleThread]

\* unconditional_loss(model, t, e)
UnconditionalLossCall ==
  /\ call = NoCall
  /\ \E n \in 1..MaxBatch :
       \E t \in [1..n -> Times], e \in [1..n -> {0, 1}] :
         call' = [op |-> "unconditional_loss", x |-> << >>,
                  t |-> t, e |-> e, elbo |-> FALSE, t_horizon |-> << >>,
                  out |-> unconditional_loss(model, t, e)]
  /\ UNCHANGED << model, apiVars >>

\* conditional_loss(model, x, t, e, elbo)
ConditionalLossCall ==
  /\ call = NoCall
  /\ \E n \in 1..MaxBatch, elbo \in BOOLEAN :
       \E x \in [1..n -> Features], t \in [1..n -> Times], e \in [1..n -> {0, 1}] :
         call' = [op |-> "conditional_loss", x |-> x,
                  t |-> t, e |-> e, elbo |-> elbo, t_horizon |-> << >>,
                  out |-> conditional_loss(model, x, t, e, elbo)]
  /\ UNCHANGED << model, apiVars >>

\* predict_cdf(model, x, t_horizon)
PredictCdfCall ==
  /\ call = NoCall
  /\ \E n \in 1..MaxBatch :
       \E x \in [1..n -> Features], t_horizon \in SeqsOf(HorizonVals, 0, MaxHorizons) :
         call' = [op |-> "predict_cdf", x |-> x,
                  t |-> << >>, e |-> << >>, elbo |-> FALSE, t_horizon |-> t_horizon,
                  out |-> predict_cdf(model, x, t_horizon)]
  /\ UNCHANGED << model, apiVars >>

\* the caller is done with the outcome of the last call
Discard ==
  /\ call # NoCall
  /\ call' = NoCall
  /\ UNCHANGED << model, apiVars >>

LossNext ==
  UnconditionalLossCall \/ ConditionalLossCall \/ PredictCdfCall \/ Discard

LossSpec == LossInit /\ [][LossNext]_vars

\* ------------------------------------------------------------------------
\* Reference quantities of the claims, computed row by row from the kernels
\* ------------------------------------------------------------------------
Supported == {"Weibull", "LogNormal"}

KernelF(dist, a, b, t) ==
  IF dist = "Weibull" THEN WeibullFAt(a, b, t) ELSE LogNormalFAt(a, b, t)

KernelS(dist, a, b, t) ==
  IF dist = "Weibull" THEN WeibullSAt(a, b, t) ELSE LogNormalSAt(a, b, t)

\* the K component log-densities / log-survivals / logits of instance (xi, ti)
ComponentF(m, xi, ti) ==
  [g \in 1..m.k |-> KernelF(m.dist, ShapeOut(m.net, xi, g), ScaleOut(m.net, xi, g), ti)]

ComponentS(m, xi, ti) ==
  [g \in 1..m.k |-> KernelS(m.dist, ShapeOut(m.net, xi, g), ScaleOut(m.net, xi, g), ti)]

RowLogits(m, xi) == [g \in 1..m.k |-> LogitOut(m.net, xi, g)]

\* the sum of vals[i] over the first n instances i with e[i] = flag
RECURSIVE SumWhere(_, _, _, _)
SumWhere(vals, e, flag, n) ==
  IF n = 0 THEN 0
  ELSE FAdd(SumWhere(vals, e, flag, n - 1), IF e[n] = flag THEN vals[n] ELSE 0)

\* sum over uncensored of aggregated log-density
\*   + alpha * sum over censored of aggregated log-survival
BatchLogLikelihood(m, x, t, e, elbo) ==
  LET aggf == [i \in 1..Len(t) |->
                 Aggregate(elbo, RowLogits(m, x[i]), ComponentF(m, x[i], t[i]))]
      aggs == [i \in 1..Len(t) |->
                 Aggregate(elbo, RowLogits(m, x[i]), ComponentS(m, x[i], t[i]))]
  IN FAdd(SumWhere(aggf, e, 1, Len(t)),
          FMul(m.discount, SumWhere(aggs, e, 0, Len(t))))

\* a <= b up to the rounding of the arithmetic: slack is the error bound
LeqWithin(a, b, slack) == a # NaN /\ b # NaN /\ a <= b + slack

RECURSIVE SumAbs(_)
SumAbs(v) == IF v = << >> THEN 0 ELSE Abs(Head(v)) + SumAbs(Tail(v))

\* rounding error of an aggregate of vals: 0.005 + 0.2% of the magnitudes
AggregateSlack(vals) == 5 + SumAbs(vals) \div 500

AllFinite(v) == \A g \in 1..Len(v) : IsFinite(v[g])

\* s with entries i and j exchanged
Swap(s, i, j) ==
  [n \in 1..Len(s) |-> IF n = i THEN s[j] ELSE IF n = j THEN s[i] ELSE s[n]]

IsCond == call.op = "conditional_loss" /\ call.out.returned

IsUncond == call.op = "unconditional_loss" /\ call.out.returned

IsCdf == call.op = "predict_cdf" /\ call.out.returned

\* ------------------------------------------------------------------------
\* Claims
\* ------------------------------------------------------------------------
\* C1: with a distribution name other than Weibull and LogNormal, each of
\* unconditional_loss, conditional_loss and predict_cdf raises the
\* unsupported-distribution error (NotImplementedError), returns no value
\* and calls neither model.forward nor model.get_shape_scale.
C1_UnsupportedRaises ==
  (call.op # "none" /\ model.dist \notin Supported) =>
     /\ call.out.raised = "NotImplementedError"
     /\ ~call.out.returned
     /\ call.out.forward = 0
     /\ call.out.get_shape_scale = 0

C1_Witness ==
  /\ call.op = "predict_cdf"
  /\ model.dist = "Gamma"
  /\ Len(call.t_horizon) > 0
  /\ call.out.raised = "NotImplementedError"

\* C3 (as claimed): conditional_loss returns -(sum over uncensored of the
\* aggregated log-density + alpha * sum over censored of the aggregated
\* log-survival) divided by the batch size.
C3_DividedByBatchSize ==
  IsCond =>
    call.out.loss =
      FNeg(torch_div(BatchLogLikelihood(model, call.x, call.t, call.e, call.elbo),
                     Len(call.t) * Unit))

\* C4 (as claimed): with alpha = 0 the conditional loss is the same for any
\* two batches that differ only in the x (shape, scale) or t of a censored row.
C4_AlphaZeroIgnoresCensored ==
  (IsCond /\ model.discount = 0) =>
    \A i \in 1..Len(call.t) : \A xi \in Features, ti \in Times :
      call.e[i] = 0 =>
        conditional_loss(model, [call.x EXCEPT ![i] = xi],
                         [call.t EXCEPT ![i] = ti], call.e, call.elbo).loss
          = call.out.loss

\* the ELBO and the exact aggregate of the component log-values vals of
\* instance i of the call, and the rounding slack of their comparison
AggregatePair(i, vals) ==
  [elbo |-> ElboAggregate(RowLogits(model, call.x[i]), vals),
   exact |-> ExactAggregate(RowLogits(model, call.x[i]), vals),
   slack |-> AggregateSlack(vals)]

\* the component log-densities and the component log-survivals of instance i
ComponentValues(i) ==
  {ComponentF(model, call.x[i], call.t[i]), ComponentS(model, call.x[i], call.t[i])}

\* C5 (as claimed): for the same finite component log-values and logits the
\* exact aggregate is at most the ELBO aggregate.
C5_ExactAtMostElbo ==
  IsCond =>
    \A i \in 1..Len(call.t) : \A vals \in ComponentValues(i) :
      AllFinite(vals) =>
        LET p == AggregatePair(i, vals)
        IN LeqWithin(p.exact, p.elbo, p.slack)

\* C5 (amended): for the same component log-values and logits the ELBO
\* aggregate is at most the exact aggregate, for every instance and every K.
C5_ElboAtMostExact ==
  IsCond =>
    \A i \in 1..Len(call.t) : \A vals \in ComponentValues(i) :
      LET p == AggregatePair(i, vals)
      IN LeqWithin(p.elbo, p.exact, p.slack)

\* an instance with two components whose ELBO aggregate is below the exact
\* aggregate by more than 1
C5_Witness ==
  /\ IsCond
  /\ model.k = 2
  /\ \E i \in 1..Len(call.t) :
       LET vals == ComponentF(model, call.x[i], call.t[i])
       IN /\ AllFinite(vals)
          /\ ElboAggregate(RowLogits(model, call.x[i]), vals) + Unit
               < ExactAggregate(RowLogits(model, call.x[i]), vals)

\* exp of every entry of a predict_cdf result: np.exp(np.array(scores))
ExpEntries == [j \in 1..Len(call.out.cdfs) |->
                [i \in 1..Len(call.x) |-> torch_exp(call.out.cdfs[j][i])]]

\* every entry of p is a probability, up to rounding
InUnitInterval(p) ==
  \A j \in 1..Len(p) : \A i \in 1..Len(p[j]) :
    LeqWithin(0, p[j][i], 0) /\ LeqWithin(p[j][i], Unit, 3)

\* C6 (as claimed): exp of every predict_cdf entry is in [0,1] and, for a
\* fixed instance, non-decreasing as the horizon increases.
C6_NonDecreasingInHorizon ==
  IsCdf =>
    LET p == ExpEntries
    IN /\ InUnitInterval(p)
       /\ \A j1, j2 \in 1..Len(call.t_horizon) : \A i \in 1..Len(call.x) :
            call.t_horizon[j1] <= call.t_horizon[j2] =>
              LeqWithin(p[j1][i], p[j2][i], 3)

\* C6 (amended): exp of every predict_cdf entry is in [0,1] and, for a
\* fixed instance, non-increasing as the horizon increases (the entries are
\* log-survival values).
C6_NonIncreasingInHorizon ==
  IsCdf =>
    LET p == ExpEntries
    IN /\ InUnitInterval(p)
       /\ \A j1, j2 \in 1..Len(call.t_horizon) : \A i \in 1..Len(call.x) :
            call.t_horizon[j1] <= call.t_horizon[j2] =>
              LeqWithin(p[j2][i], p[j1][i], 3)

\* two horizons 1 < 100 at which an instance's survival drops by more than 0.1
C6_Witness ==
  /\ IsCdf
  /\ call.t_horizon = << Unit, 100 * Unit >>
  /\ ExpEntries[2][1] + 100 < ExpEntries[1][1]
  /\ ExpEntries[2][1] >= 0

\* C7: with K = 1 the conditional loss is the same in ELBO and exact mode;
\* for the Weibull single-instance batch t = 1, shape = 0, scale = 0 it is
\* 1.0 if the instance is uncensored and alpha if it is censored.
C7_SingleComponent ==
  (IsCond /\ model.k = 1) =>
    /\ conditional_loss(model, call.x, call.t, call.e, ~call.elbo).loss = call.out.loss
    /\ ( /\ model.dist = "Weibull"
         /\ call.t = << Unit >>
         /\ ShapeOut(model.net, call.x[1], 1) = 0
         /\ ScaleOut(model.net, call.x[1], 1) = 0 )
       => call.out.loss = (IF call.e[1] = 1 THEN Unit ELSE model.discount)

\* the censored scenario with alpha = 0.5: the loss is 0.5
C7_Witness ==
  /\ IsCond
  /\ model.k = 1
  /\ model.dist = "Weibull"
  /\ model.discount = Unit \div 2
  /\ call.t = << Unit >>
  /\ call.e = << 0 >>
  /\ ShapeOut(model.net, call.x[1], 1) = 0
  /\ ScaleOut(model.net, call.x[1], 1) = 0
  /\ call.out.loss = Unit \div 2

\* the sum over all K components of (sum over uncensored of the component
\* log-density + sum over censored of the component log-survival), with the
\* global shape and scale
RECURSIVE UniformLogLikelihood(_, _, _, _)
UniformLogLikelihood(m, t, e, g) ==
  IF g = 0 THEN 0
  ELSE LET p == get_shape_scale(m)
           f == [i \in 1..Len(t) |-> KernelF(m.dist, p.shape[g], p.scale[g], t[i])]
           s == [i \in 1..Len(t) |-> KernelS(m.dist, p.shape[g], p.scale[g], t[i])]
       IN FAdd(UniformLogLikelihood(m, t, e, g - 1),
               FAdd(SumWhere(f, e, 1, Len(t)), SumWhere(s, e, 0, Len(t))))

\* C9: unconditional_loss reads the global shape/scale from get_shape_scale
\* and never calls model.forward; its result is the negated plain sum over
\* all K components of (sum over uncensored of the component log-density +
\* sum over censored of the component log-survival): no weights, no discount.
C9_UnconditionalUniformSum ==
  IsUncond =>
    /\ call.out.forward = 0
    /\ call.out.get_shape_scale = 1
    /\ call.out.loss = FNeg(UniformLogLikelihood(model, call.t, call.e, model.k))

\* a mixed batch on two components with a censored row and a discount below 1
C9_Witness ==
  /\ IsUncond
  /\ model.k = 2
  /\ model.discount = Unit \div 2
  /\ call.e = << 1, 0 >>
  /\ IsFinite(call.out.loss)
  /\ call.out.loss > 0

\* C10: the conditional loss is unchanged when the rows of the batch are
\* permuted (every exchange of two neighbouring rows, which generate the
\* permutations), and it is the negated sum of one
\* term per instance computed from that instance's own row: its aggregated
\* log-density if e = 1, its (discounted) aggregated log-survival if e = 0.
C10_OrderIrrelevant ==
  IsCond =>
    /\ \A i \in 1..(Len(call.t) - 1) :
         conditional_loss(model, Swap(call.x, i, i + 1), Swap(call.t, i, i + 1),
                          Swap(call.e, i, i + 1), call.elbo).loss = call.out.loss
    /\ call.out.loss =
         FNeg(BatchLogLikelihood(model, call.x, call.t, call.e, call.elbo))

\* a batch of a censored and an uncensored instance with different rows
C10_Witness ==
  /\ IsCond
  /\ Len(call.t) = 2
  /\ call.e = << 0, 1 >>
  /\ call.x[1] # call.x[2]
  /\ call.t[1] # call.t[2]
  /\ model.k = 2
  /\ IsFinite(call.out.loss)

\* ------------------------------------------------------------------------
\* dsm_api.py: fit
\* ------------------------------------------------------------------------
\* largest number of rows of the training data handed to fit
MaxRows == 3

\* the argument vsize of fit, in percent: 0, 0.15 (the default), 0.5
VSizePercents == {0, 15, 50}

\* the orders np.random.shuffle can leave idx = list(range(n)) in
ShuffledOrders(n) ==
  {p \in [1..n -> 1..n] : \A i, j \in 1..n : p[i] = p[j] => i = j}

\* int(vsize * x_train.shape[0])
int_vsize(percent, n) == (percent * n) \div 100

\* a[-vsize:]: the last vsize entries, and all of a when vsize is 0
LastRows(a, vsize) ==
  IF vsize = 0 THEN a ELSE SubSeq(a, Len(a) - vsize + 1, Len(a))

\* a[:-vsize]: all but the last vsize entries, and none when vsize is 0
AllButLastRows(a, vsize) ==
  IF vsize = 0 THEN << >> ELSE SubSeq(a, 1, Len(a) - vsize)

\* DeepSurvivalMachinesTorch(inputdim, k, layers, dist, temp, discount, ...):
\* a network in its initial parameter state
DeepSurvivalMachinesTorch(self) ==
  [dist |-> self.dist, k |-> self.k, discount |-> self.discount, net |-> 1]

\* train_dsm(model, x_train, ..., x_val, ...): pretrains on the
\* unconditional objective and trains on the conditional one, both of which
\* raise for an unsupported model.dist; net is the parameter state reached
train_dsm(m, net) ==
  IF m.dist \in {"Weibull", "LogNormal"}
  THEN [raised |-> "", model |-> [m EXCEPT !.net = net]]
  ELSE [raised |-> "NotImplementedError", model |-> m]

\* what a call of fit on n rows with the fraction vsize (in percent) did: the
\* exception it raised, and the rows it took for training and for validation
FitOutcome(self, n, vsize, exc, train, val) ==
  [op |-> "fit", raised |-> exc, fitted_before |-> self.fitted,
   n |-> n, vsize |-> vsize, train |-> train, val |-> val]

\* fit that sets self.fitted before it trains
fit_marks_first(self, n, tlen, idx, vsize, net) ==
  LET v == int_vsize(vsize, n)
      val == LastRows(idx, v)
      train == AllButLastRows(idx, v)
      r == train_dsm(DeepSurvivalMachinesTorch(self), net)
      marked == [self EXCEPT !.fitted = TRUE]
  IN IF tlen < n
     THEN [self |-> self, call |-> FitOutcome(self, n, vsize, "IndexError", << >>, << >>)]
     ELSE IF self.cls # "DeepSurvivalMachines"
     THEN [self |-> self,
           call |-> FitOutcome(self, n, vsize, "NotImplementedError", train, val)]
     ELSE IF r.raised # ""
     THEN [self |-> marked, call |-> FitOutcome(self, n, vsize, r.raised, train, val)]
     ELSE [self |-> [marked EXCEPT !.torch_model = r.model],
           call |-> FitOutcome(self, n, vsize, "", train, val)]

\* fit(self, x, t, e, vsize, ...) on x of n rows and t, e of tlen entries;
\* idx is the shuffled order, net the parameter state training reaches.
\* Rows are named by their position in x.
fit(self, n, tlen, idx, vsize, net) ==
  IF tlen < n
  THEN \* t[idx] indexes past the end of t
       [self |-> self, call |-> FitOutcome(self, n, vsize, "IndexError", << >>, << >>)]
  ELSE
    LET v == int_vsize(vsize, n)
        val == LastRows(idx, v)
        train == AllButLastRows(idx, v)
    IN IF self.cls = "DeepSurvivalMachines"
       THEN LET r == train_dsm(DeepSurvivalMachinesTorch(self), net)
            IN IF r.raised # ""
               THEN [self |-> self, call |-> FitOutcome(self, n, vsize, r.raised, train, val)]
               ELSE [self |-> [self EXCEPT !.torch_model = r.model,
                                           !.fitted = TRUE],
                     call |-> FitOutcome(self, n, vsize, "", train, val)]
       ELSE [self |-> self,
             call |-> FitOutcome(self, n, vsize, "NotImplementedError", train, val)]

\* ------------------------------------------------------------------------
\* dsm_api.py: predict_survival and predict_risk
\* ------------------------------------------------------------------------
\* if not isinstance(t, list): t = [t]
AsList(t) == IF t.list THEN t.items ELSE << t.items[1] >>

\* np.exp(np.array(scores)).T: [horizons, batch] -> [batch, horizons]
\* (an empty list of scores is an array of shape (0,), and so is its transpose)
ExpTransposed(scores, batch) ==
  IF scores = << >> THEN << >>
  ELSE [i \in 1..batch |-> [j \in 1..Len(scores) |-> torch_exp(scores[j][i])]]

\* 1 - a, entry by entry
OneMinus(a) ==
  [i \in 1..Len(a) |-> [j \in 1..Len(a[i]) |-> FSub(Unit, a[i][j])]]

\* the part of predict_survival after its test of self.fitted
SurvivalOf(torch_model, x, t) ==
  LET scores == predict_cdf(torch_model, x, AsList(t))
  IN IF scores.raised # "" THEN PredictRaised(scores.raised, 1)
     ELSE PredictReturned(ExpTransposed(scores.cdfs, Len(x)))

\* the part of predict_risk after predict_survival has come back
RiskOf(survival) ==
  IF survival.returned THEN PredictReturned(OneMinus(survival.probs))
  ELSE survival

predict_survival(self, x, t) ==
  IF self.fitted THEN SurvivalOf(self.torch_model, x, t)
  ELSE PredictRaised("Exception", 0)

predict_risk(self, x, t) ==
  IF self.fitted THEN RiskOf(predict_survival(self, x, t))
  ELSE PredictRaised("Exception", 0)

\* an inference call that leaves a retrained network behind
SelfAfterPredictRetrained(self) ==
  [self EXCEPT !.torch_model.net = 3 - self.torch_model.net]

\* self after predict_survival has run: no attribute is assigned
SelfAfterPredict(self) == self

\* the arguments of the inference calls: feature batches and horizons
PredictXs == {<< 1 >>, << 2, 1 >>}

PredictTs == {FloatT(Unit), ListT(<< 0, 100 * Unit >>), ListT(<< >>)}

\* ------------------------------------------------------------------------
\* The object and its callers: fit by one caller at a time and with no
\* inference call in flight; inference calls by the threads, interleaved at
\* their reads of self.fitted and self.torch_model
\* ------------------------------------------------------------------------
Objects ==
  {DeepSurvivalMachines(cls, k, d, Unit) : cls \in Classes, k \in 1..MaxK, d \in Dists}

Init ==
  /\ dsm \in Objects
  /\ fit_call = NoFit
  /\ fit_succeeded = FALSE
  /\ threads = [th \in Threads |-> IdleThread]
  /\ model = DeepSurvivalMachinesTorch(dsm)
  /\ call = NoCall

\* dsm.fit(x, t, e, vsize, ...)
Fit ==
  /\ fit_call = NoFit
  /\ \A th \in Threads : threads[th].pc = "idle"
  /\ \E n \in 1..MaxRows, vsize \in VSizePercents, net \in Nets :
       \E tlen \in {n - 1, n}, idx \in ShuffledOrders(n) :
         LET r == fit(dsm, n, tlen, idx, vsize, net)
         IN /\ dsm' = r.self
            /\ fit_call' = r.call
            /\ fit_succeeded' = (fit_succeeded \/ r.call.raised = "")
  /\ UNCHANGED << lossVars, threads >>

\* the caller of fit is done with its outcome
FitReturn ==
  /\ fit_call # NoFit
  /\ fit_call' = NoFit
  /\ UNCHANGED << lossVars, dsm, fit_succeeded, threads >>

\* thread th calls dsm.predict_survival(x, t) or dsm.predict_risk(x, t)
Begin(th) ==
  /\ fit_call = NoFit
  /\ threads[th].pc = "idle"
  /\ \E op \in {"predict_survival", "predict_risk"}, x \in PredictXs, t \in PredictTs :
       threads' = [threads EXCEPT ![th] =
                     [pc |-> IF op = "predict_risk" THEN "risk_check"
                             ELSE "survival_check",
                      op |-> op, x |-> x, t |-> t, self0 |-> dsm,
                      out |-> NoOutcome]]
  /\ UNCHANGED << lossVars, dsm, fit_call, fit_succeeded >>

\* predict_risk: if self.fitted: ... self.predict_survival(x, t) / else raise
RiskCheck(th) ==
  /\ threads[th].pc = "risk_check"
  /\ threads' = [threads EXCEPT ![th] =
                   IF dsm.fitted THEN [@ EXCEPT !.pc = "survival_check"]
                   ELSE [@ EXCEPT !.pc = "done",
                                  !.out = PredictRaised("Exception", 0)]]
  /\ UNCHANGED << lossVars, dsm, fit_call, fit_succeeded >>

\* predict_survival: if self.fitted: ... / else raise
SurvivalCheck(th) ==
  /\ threads[th].pc = "survival_check"
  /\ threads' = [threads EXCEPT ![th] =
                   IF dsm.fitted THEN [@ EXCEPT !.pc = "predict_cdf"]
                   ELSE [@ EXCEPT !.pc = "done",
                                  !.out = PredictRaised("Exception", 0)]]
  /\ UNCHANGED << lossVars, dsm, fit_call, fit_succeeded >>

\* predict_survival: scores = predict_cdf(self.torch_model, x, t) and the
\* return of exp(scores).T; predict_risk returns 1 - that
PredictCdfStep(th) ==
  /\ threads[th].pc = "predict_cdf"
  /\ LET survival == SurvivalOf(dsm.torch_model, threads[th].x, threads[th].t)
     IN threads' = [threads EXCEPT ![th] =
                      [@ EXCEPT !.pc = "done",
                                !.out = IF threads[th].op = "predict_risk"
                                        THEN RiskOf(survival) ELSE survival]]
  /\ dsm' = SelfAfterPredict(dsm)
  /\ UNCHANGED << lossVars, fit_call, fit_succeeded >>

\* the call of thread th returns to its caller
Return(th) ==
  /\ threads[th].pc = "done"
  /\ threads' = [threads EXCEPT ![th] = IdleThread]
  /\ UNCHANGED << lossVars, dsm, fit_call, fit_succeeded >>

Next ==
  \/ Fit
  \/ FitReturn
  \/ \E th \in Threads : Begin(th)
  \/ \E th \in Threads : RiskCheck(th)
  \/ \E th \in Threads : SurvivalCheck(th)
  \/ \E th \in Threads : PredictCdfStep(th)
  \/ \E th \in Threads : Return(th)

Spec == Init /\ [][Next]_vars

\* ------------------------------------------------------------------------
\* Claims about the object
\* ------------------------------------------------------------------------
\* thread th has got as far as the call of predict_cdf
ReachedPredictCdf(th) ==
  threads[th].pc = "predict_cdf" \/ threads[th].out.predict_cdf > 0

\* the fitted flag is False until a fit has completed without raising and
\* True from then on; without such a fit every inference call ends in the
\* not-fitted Exception and none gets to predict_cdf
FittedLifecycle ==
  /\ dsm.fitted = fit_succeeded
  /\ (fit_call.op = "fit" /\ fit_call.raised = "") => dsm.fitted
  /\ \A th \in Threads :
       /\ ReachedPredictCdf(th) => fit_succeeded
       /\ (threads[th].pc = "done" /\ ~fit_succeeded) =>
            /\ threads[th].out.raised = "Exception"
            /\ ~threads[th].out.returned
            /\ threads[th].out.predict_cdf = 0

\* C2 (as claimed): predict_survival and predict_risk fail with the
\* not-fitted error and never reach predict_cdf unless an earlier fit
\* completed successfully; the fitted flag starts False and is set only at
\* the end of a successful fit; after a fit that raises the object is
\* unfitted.
C2_RaisingFitLeavesUnfitted ==
  /\ FittedLifecycle
  /\ (fit_call.op = "fit" /\ fit_call.raised # "") => ~dsm.fitted

\* C2 (amended): as claimed, except that a fit that raises leaves the fitted
\* flag as it was before the call: an object that was never fitted stays
\* unfitted, an object fitted earlier stays fitted.
C2_RaisingFitKeepsFlag ==
  /\ FittedLifecycle
  /\ (fit_call.op = "fit" /\ fit_call.raised # "") =>
       dsm.fitted = fit_call.fitted_before

\* a fit has raised on an object that an earlier fit had fitted
C2_Witness ==
  /\ fit_call.op = "fit"
  /\ fit_call.raised = "IndexError"
  /\ fit_call.fitted_before
  /\ dsm.fitted
  /\ dsm.torch_model \in TorchModels

\* C8: an inference call changes neither the model's parameters nor the
\* fitted flag nor any other attribute of the object, and under every
\* interleaving of the threads' inference calls each call ends with the
\* outcome the same call has when it runs alone on the object.
C8_InferenceReadOnly ==
  \A th \in Threads :
    threads[th].pc # "idle" =>
      /\ dsm = threads[th].self0
      /\ threads[th].pc = "done" =>
           threads[th].out =
             (IF threads[th].op = "predict_risk"
              THEN predict_risk(threads[th].self0, threads[th].x, threads[th].t)
              ELSE predict_survival(threads[th].self0, threads[th].x, threads[th].t))

\* on a fitted object one thread has its array of probabilities while the
\* other, called with other arguments, is between its test of self.fitted
\* and its call of predict_cdf
C8_Witness ==
  /\ dsm.fitted
  /\ threads["t1"].pc = "done"
  /\ threads["t1"].out.returned
  /\ threads["t1"].op = "predict_risk"
  /\ Len(threads["t1"].out.probs) = 2
  /\ threads["t2"].pc = "predict_cdf"
  /\ threads["t2"].op = "predict_survival"
  /\ threads["t2"].x # threads["t1"].x

\* the last call of fit got as far as the split (lines 139-144)
SplitDone == fit_call.op = "fit" /\ fit_call.raised # "IndexError"

\* the number of entries of seq equal to r
RECURSIVE CountOf(_, _)
CountOf(seq, r) ==
  IF seq = << >> THEN 0
  ELSE (IF Head(seq) = r THEN 1 ELSE 0) + CountOf(Tail(seq), r)

\* C11 (as claimed): the training and the validation set that fit hands to
\* train_dsm are disjoint, together hold every one of the n rows exactly
\* once, and have n - int(vsize*n) and int(vsize*n) rows, also when
\* int(vsize*n) = 0.
C11_SplitPartitions ==
  SplitDone =>
    LET v == int_vsize(fit_call.vsize, fit_call.n)
    IN /\ \A r \in 1..fit_call.n :
            CountOf(fit_call.train, r) + CountOf(fit_call.val, r) = 1
       /\ Len(fit_call.val) = v
       /\ Len(fit_call.train) = fit_call.n - v

====
